---- MODULE Spec2Model ----
(***************************************************************************)
(* Model of rules/terraform_kb4_file_structure.go: the rule                *)
(* TerraformKb4FileStructureRule and its Check method, which runs the      *)
(* file-presence check and six block-placement checks against a tflint     *)
(* Runner (GetFiles, GetModuleContent, EmitIssue).                         *)
(***************************************************************************)
EXTENDS Integers, Sequences, FiniteSets, TLC

VARIABLES
    state,      \* position of Check: NotStarted, Running, Done, Panicked
    next,       \* index in CheckOrder of the check call Check is about to make
    events,     \* the calls made on the runner so far, in order
    content,    \* what the runner answered to the last query (files / content, err)
    nblocks,    \* number of blocks the runner has returned so far
    ret         \* value returned by Check ("none" until it returns)

vars == <<state, next, events, content, nblocks, ret>>

(***************************************************************************)
(* Bounds                                                                  *)
(***************************************************************************)
\* most blocks the module holds (returned over all GetModuleContent calls)
MaxBlocks == 3

(***************************************************************************)
(* Literals of the rule                                                    *)
(***************************************************************************)
EXPECTED_FILES == <<"_init.tf", "_variables.tf", "_outputs.tf", "_locals.tf">>

\* the calls of Check, in the order it makes them
CheckOrderSwapped ==
    <<"files", "output", "variable", "provider", "terraform", "locals", "data">>

CheckOrder ==
    <<"files", "variable", "output", "provider", "terraform", "locals", "data">>

\* BlockSchema.Type of each check's GetModuleContent call
BlockKinds == {"variable", "output", "provider", "terraform", "locals", "data"}

\* BlockSchema.LabelNames of each check's schema
LabelNames(kind) ==
    IF kind \in {"terraform", "locals"} THEN <<>> ELSE <<"name">>

\* the file name literal each check compares DefRange.Filename with
ExpectedFile(kind) ==
    CASE kind = "variable" -> "_variables.tf"
      [] kind = "output"   -> "_outputs.tf"
      [] OTHER             -> "_init.tf"

\* the leading words of each check's message format
KindWord(kind) ==
    CASE kind = "variable"  -> "variable"
      [] kind = "output"    -> "output"
      [] kind = "provider"  -> "provider"
      [] kind = "terraform" -> "terraform block"
      [] kind = "locals"    -> "locals block"
      [] kind = "data"      -> "data terraform_remote_state"

FileWord == "Module should include a"

(***************************************************************************)
(* The runner's answers (inputs)                                           *)
(***************************************************************************)
OtherFile == "main.tf"

FileNames == {EXPECTED_FILES[i] : i \in 1..Len(EXPECTED_FILES)} \cup {OtherFile}

\* a *hcl.File: only its length matters here (0 = an empty file)
FileObjects == {[Bytes |-> 0], [Bytes |-> 1]}

\* map[string]*hcl.File; a name outside the DOMAIN reads as nil
FileMaps == UNION {[S -> FileObjects] : S \in SUBSET FileNames}

NameOf(i) == CASE i = 1 -> "x" [] i = 2 -> "y" [] i = 3 -> "z" [] OTHER -> "w"

DataTypes == {"terraform_remote_state", "aws_ami"}

\* hcl.Range of a block header: one line, the i-th block sits on line i
DefRangeOf(f, i) == [Filename |-> f, Start |-> i, End |-> i]

\* the blocks GetModuleContent can return for a schema of the given kind:
\* labels as the schema's LabelNames dictate, each block either in the file
\* the check expects or in OtherFile.  The runner answers each query on its
\* own (the rule never relates the file map to the blocks' files).  For a
\* data block, Type and Name are the fields checkTerraformRemoteState reads
\* as the data source's type and name.
BlockSeqs(kind, most) ==
    UNION { { [i \in 1..n |->
                 IF kind = "data"
                 THEN [Type     |-> ty[i],
                       Name     |-> NameOf(i),
                       Labels   |-> <<NameOf(i)>>,
                       DefRange |-> DefRangeOf(fs[i], i)]
                 ELSE [Type     |-> kind,
                       Labels   |-> IF Len(LabelNames(kind)) = 0 THEN <<>>
                                    ELSE <<NameOf(i)>>,
                       DefRange |-> DefRangeOf(fs[i], i)] ]
              : fs \in [1..n -> {ExpectedFile(kind), OtherFile}],
                ty \in [1..n -> IF kind = "data" THEN DataTypes ELSE {kind}] }
            : n \in 0..most }

\* an error returned by the runner for the query of the given check
ErrOf(kind) == <<"error", kind>>

(***************************************************************************)
(* Events: the calls made on the runner                                    *)
(***************************************************************************)
QueryEv(kind, ok) == [op |-> "query", kind |-> kind, ok |-> ok]

\* runner.EmitIssue(r, message, range); a message is the tuple of the
\* Sprintf format's leading words and its arguments
IssueEv(message, range) == [op |-> "emit", message |-> message, range |-> range]

\* hcl.InitialPos is line 1; the End of the range literal is left zero
FileIssue(name) ==
    IssueEv(<<FileWord, name>>, [Filename |-> name, Start |-> 1, End |-> 0])

BlockIssue(kind, label, b) ==
    IssueEv(<<KindWord(kind), label, b.DefRange.Filename, ExpectedFile(kind)>>,
            b.DefRange)

(***************************************************************************)
(* checkFiles: the loop over EXPECTED_FILES                                *)
(***************************************************************************)
FileIsNilInverted(files, name) == name \in DOMAIN files

FileIsNil(files, name) == name \notin DOMAIN files

RECURSIVE MissingFileIssues(_, _)
MissingFileIssues(files, i) ==
    IF i > Len(EXPECTED_FILES) THEN <<>>
    ELSE (IF FileIsNil(files, EXPECTED_FILES[i])
          THEN <<FileIssue(EXPECTED_FILES[i])>> ELSE <<>>)
         \o MissingFileIssues(files, i + 1)

(***************************************************************************)
(* The block checks: the loop over content.Blocks                          *)
(***************************************************************************)
WrongFileAlways(kind, b) == TRUE

WrongFile(kind, b) == b.DefRange.Filename # ExpectedFile(kind)

\* the data check's inner condition on data.Type
IsRemoteStateAny(b) == TRUE

IsRemoteState(b) == b.Type = "terraform_remote_state"

\* the loop of checkVariables, checkOutputs, checkProviders,
\* checkTerraformBlock and checkLocals: Labels[0] is evaluated as an argument
\* of Sprintf, and indexing an empty slice panics (index out of range)
RECURSIVE LabelledLoop(_, _, _)
LabelledLoop(kind, blocks, i) ==
    IF i > Len(blocks) THEN [emitted |-> <<>>, panicked |-> FALSE]
    ELSE IF ~WrongFile(kind, blocks[i]) THEN LabelledLoop(kind, blocks, i + 1)
    ELSE IF Len(blocks[i].Labels) = 0 THEN [emitted |-> <<>>, panicked |-> TRUE]
    ELSE LET rest == LabelledLoop(kind, blocks, i + 1)
         IN  [emitted  |-> <<BlockIssue(kind, blocks[i].Labels[1], blocks[i])>>
                           \o rest.emitted,
              panicked |-> rest.panicked]

\* the loop of checkTerraformRemoteState: reads data.Type and data.Name
RECURSIVE RemoteStateLoop(_, _)
RemoteStateLoop(blocks, i) ==
    IF i > Len(blocks) THEN [emitted |-> <<>>, panicked |-> FALSE]
    ELSE LET rest == RemoteStateLoop(blocks, i + 1)
         IN  IF WrongFile("data", blocks[i]) /\ IsRemoteState(blocks[i])
             THEN [emitted  |-> <<BlockIssue("data", blocks[i].Name, blocks[i])>>
                                \o rest.emitted,
                   panicked |-> rest.panicked]
             ELSE rest

(***************************************************************************)
(* State machine                                                           *)
(***************************************************************************)
NoContent == [kind |-> "none", err |-> "nil"]

Init ==
    /\ state = "NotStarted"
    /\ next = 1
    /\ events = <<>>
    /\ content = NoContent
    /\ nblocks = 0
    /\ ret = "none"

\* Check is entered (the trace log line)
Begin ==
    /\ state = "NotStarted"
    /\ state' = "Running"
    /\ UNCHANGED <<next, events, content, nblocks, ret>>

AtCheck(name) ==
    /\ state = "Running"
    /\ next <= Len(CheckOrder)
    /\ CheckOrder[next] = name

\* r.checkFiles(runner); Check drops the returned error
checkFiles ==
    /\ AtCheck("files")
    /\ \/ /\ events' = Append(events, QueryEv("files", FALSE))
          /\ content' = [kind |-> "files", err |-> ErrOf("files")]
       \/ \E files \in FileMaps :
             /\ events' = Append(events, QueryEv("files", TRUE))
                              \o MissingFileIssues(files, 1)
             /\ content' = [kind |-> "files", err |-> "nil", files |-> files]
    /\ next' = next + 1
    /\ UNCHANGED <<state, nblocks, ret>>

\* one of the five checks that format Labels[0]; Check drops the returned error
checkLabelled(kind) ==
    /\ AtCheck(kind)
    /\ \/ /\ events' = Append(events, QueryEv(kind, FALSE))
          /\ content' = [kind |-> kind, err |-> ErrOf(kind)]
          /\ next' = next + 1
          /\ UNCHANGED <<state, nblocks>>
       \/ \E blocks \in BlockSeqs(kind, MaxBlocks - nblocks) :
             LET run == LabelledLoop(kind, blocks, 1)
             IN  /\ events' = Append(events, QueryEv(kind, TRUE)) \o run.emitted
                 /\ content' = [kind |-> kind, err |-> "nil", blocks |-> blocks]
                 /\ nblocks' = nblocks + Len(blocks)
                 /\ IF run.panicked
                    THEN state' = "Panicked" /\ next' = next
                    ELSE state' = state /\ next' = next + 1
    /\ UNCHANGED ret

checkVariables == checkLabelled("variable")

checkOutputs == checkLabelled("output")

checkProviders == checkLabelled("provider")

checkTerraformBlock == checkLabelled("terraform")

checkLocals == checkLabelled("locals")

\* r.checkTerraformRemoteState(runner); Check drops the returned error
checkTerraformRemoteState ==
    /\ AtCheck("data")
    /\ \/ /\ events' = Append(events, QueryEv("data", FALSE))
          /\ content' = [kind |-> "data", err |-> ErrOf("data")]
          /\ nblocks' = nblocks
       \/ \E blocks \in BlockSeqs("data", MaxBlocks - nblocks) :
             /\ events' = Append(events, QueryEv("data", TRUE))
                              \o RemoteStateLoop(blocks, 1).emitted
             /\ content' = [kind |-> "data", err |-> "nil", blocks |-> blocks]
             /\ nblocks' = nblocks + Len(blocks)
    /\ next' = next + 1
    /\ UNCHANGED <<state, ret>>

\* return nil
Return ==
    /\ state = "Running"
    /\ next > Len(CheckOrder)
    /\ state' = "Done"
    /\ ret' = "nil"
    /\ UNCHANGED <<next, events, content, nblocks>>

Next ==
    \/ Begin
    \/ checkFiles
    \/ checkVariables
    \/ checkOutputs
    \/ checkProviders
    \/ checkTerraformBlock
    \/ checkLocals
    \/ checkTerraformRemoteState
    \/ Return

Spec == Init /\ [][Next]_vars

TypeOK ==
    /\ state \in {"NotStarted", "Running", "Done", "Panicked"}
    /\ next \in 1..(Len(CheckOrder) + 1)
    /\ nblocks \in 0..MaxBlocks
    /\ ret \in {"none", "nil"}

(***************************************************************************)
(* Reading the event log                                                   *)
(***************************************************************************)
IsEmit(e) == e.op = "emit"

IsQuery(e) == e.op = "query"

Issues == SelectSeq(events, IsEmit)

Queries == SelectSeq(events, IsQuery)

QueryKinds == [i \in 1..Len(Queries) |-> Queries[i].kind]

SomeQueryFailed == \E i \in 1..Len(events) : IsQuery(events[i]) /\ ~events[i].ok

IsFileIssue(e) == e.message[1] = FileWord

FileIssues == SelectSeq(Issues, IsFileIssue)

RangesOf(seq) == [i \in 1..Len(seq) |-> seq[i].range]

DefRangesOf(blocks) == [i \in 1..Len(blocks) |-> blocks[i].DefRange]

\* Check has returned or crashed
Finished == state \in {"Done", "Panicked"}

\* the last query was for blocks and was answered
BlocksAnswered == content.kind \in BlockKinds /\ content.err = "nil"

\* the policy as the specification states it
RequiredFiles == <<"_init.tf", "_variables.tf", "_outputs.tf", "_locals.tf">>

DeclaredOrder ==
    <<"files", "variable", "output", "provider", "terraform", "locals", "data">>

PolicyFile(kind) ==
    CASE kind = "variable" -> "_variables.tf"
      [] kind = "output"   -> "_outputs.tf"
      [] kind \in {"provider", "terraform", "locals", "data"} -> "_init.tf"

PositionIn(seq, x) == CHOOSE i \in 1..Len(seq) : seq[i] = x

KindOfWord(word) ==
    IF word = FileWord THEN "files"
    ELSE CHOOSE k \in BlockKinds : KindWord(k) = word

\* the check an event belongs to, as its place in the declared order
Rank(e) ==
    PositionIn(DeclaredOrder,
               IF IsQuery(e) THEN e.kind ELSE KindOfWord(e.message[1]))

(***************************************************************************)
(* C1: when the query of one check fails, Check aborts the invocation: no  *)
(* later check issues its query and no later diagnostic is emitted, i.e. a *)
(* failed query is the last call made on the runner.                       *)
(***************************************************************************)
C1_AbortOnQueryFailure ==
    \A i \in 1..Len(events) :
        (IsQuery(events[i]) /\ ~events[i].ok) => i = Len(events)

(***************************************************************************)
(* C2: a query failure is reported as an error: when Check has returned,   *)
(* it returned nil exactly when every query it issued succeeded.           *)
(***************************************************************************)
C2_FailureReturnedAsError ==
    state = "Done" => (ret = "nil" <=> ~SomeQueryFailed)

(***************************************************************************)
(* C3: no short-circuit on a check's failure: in an invocation where some  *)
(* query failed, once the invocation is over every check has issued its    *)
(* query.                                                                  *)
(***************************************************************************)
C3_NoShortCircuit ==
    (Finished /\ SomeQueryFailed) => QueryKinds = DeclaredOrder

(***************************************************************************)
(* C4: file-presence check: for the file set GetFiles returned, each       *)
(* required file that is absent gets exactly one diagnostic, at the start  *)
(* of that file name, in required-file order; a present file (empty or     *)
(* not) gets none; and no other check emits a file-presence diagnostic.    *)
(***************************************************************************)
StartOf(name) == [Filename |-> name, Start |-> 1, End |-> 0]

C4_FilePresence ==
    /\ (content.kind = "files" /\ content.err = "nil") =>
          /\ Issues = FileIssues
          /\ \A k \in 1..Len(RequiredFiles) :
                Cardinality({i \in 1..Len(FileIssues) :
                                FileIssues[i].range = StartOf(RequiredFiles[k])})
                = IF RequiredFiles[k] \in DOMAIN content.files THEN 0 ELSE 1
          /\ \A i \in 1..Len(FileIssues) :
                \E k \in 1..Len(RequiredFiles) :
                    FileIssues[i].range = StartOf(RequiredFiles[k])
          /\ \A i, j \in 1..Len(FileIssues) :
                i < j => PositionIn(RequiredFiles, FileIssues[i].range.Filename)
                         < PositionIn(RequiredFiles, FileIssues[j].range.Filename)
    /\ \A i \in 1..Len(events) :
          (IsEmit(events[i]) /\ IsFileIssue(events[i])) =>
             \A j \in 1..(i - 1) : IsQuery(events[j]) => events[j].kind = "files"

\* GetFiles returned a set with an absent required file and a present empty one
C4_Witness ==
    /\ content.kind = "files" /\ content.err = "nil"
    /\ "_init.tf" \notin DOMAIN content.files
    /\ "_locals.tf" \notin DOMAIN content.files
    /\ "_outputs.tf" \in DOMAIN content.files
    /\ content.files["_outputs.tf"].Bytes = 0
    /\ Len(Issues) = 2

(***************************************************************************)
(* C5: a block of kind k whose source file is the policy's expected file   *)
(* for k causes no diagnostic: no placement diagnostic is located in the   *)
(* expected file of its kind, and no diagnostic of the kind just checked   *)
(* is located at the declaration range of a well-placed block.             *)
(***************************************************************************)
C5_WellPlacedIsSilent ==
    /\ \A i \in 1..Len(Issues) :
          ~IsFileIssue(Issues[i]) =>
             Issues[i].range.Filename # PolicyFile(KindOfWord(Issues[i].message[1]))
    /\ BlocksAnswered =>
          \A b \in 1..Len(content.blocks) :
             content.blocks[b].DefRange.Filename = PolicyFile(content.kind) =>
                ~\E i \in 1..Len(Issues) :
                     /\ Issues[i].message[1] = KindWord(content.kind)
                     /\ Issues[i].range = content.blocks[b].DefRange

\* the outputs check saw a misplaced block followed by a well-placed one
C5_Witness ==
    /\ content.kind = "output" /\ content.err = "nil"
    /\ Len(content.blocks) = 2
    /\ content.blocks[1].DefRange.Filename = "main.tf"
    /\ content.blocks[2].DefRange.Filename = "_outputs.tf"
    /\ state = "Running" /\ next = 4
    /\ \E i \in 1..Len(Issues) : Issues[i].message[1] = "output"

(***************************************************************************)
(* C6: for every kind k and every sequence of blocks of kind k the         *)
(* Accessor returned, the diagnostics of kind k are exactly one per block  *)
(* whose source file differs from the expected file (for data: per such    *)
(* block of type terraform_remote_state), each at that block's DefRange,   *)
(* in the Accessor's return order.                                         *)
(***************************************************************************)
IsPolicyMisplaced(b) ==
    /\ b.DefRange.Filename # PolicyFile(content.kind)
    /\ content.kind = "data" => b.Type = "terraform_remote_state"

IsIssueOfContentKind(e) == e.message[1] = KindWord(content.kind)

C6_OneIssuePerMisplacedBlock ==
    BlocksAnswered =>
        RangesOf(SelectSeq(Issues, IsIssueOfContentKind))
        = DefRangesOf(SelectSeq(content.blocks, IsPolicyMisplaced))

(***************************************************************************)
(* C7: a block with no label (terraform, locals) outside _init.tf still    *)
(* gets its placement diagnostic, with the empty string as label, and the  *)
(* check completes without a crash.                                        *)
(***************************************************************************)
C7_UnlabelledBlockGetsIssue ==
    (content.kind \in {"terraform", "locals"} /\ content.err = "nil") =>
        /\ state # "Panicked"
        /\ \A b \in 1..Len(content.blocks) :
              content.blocks[b].DefRange.Filename # "_init.tf" =>
                 \E i \in 1..Len(Issues) :
                     /\ Issues[i].message[1] = KindWord(content.kind)
                     /\ Issues[i].message[2] = ""
                     /\ Issues[i].range = content.blocks[b].DefRange

(***************************************************************************)
(* C8: remote-state check: among the data blocks returned, exactly those   *)
(* of type terraform_remote_state located outside _init.tf get a           *)
(* diagnostic (one each, at the block's DefRange, in return order); a data *)
(* block of another type gets none; such diagnostics come only from the    *)
(* data check.                                                             *)
(***************************************************************************)
IsRemoteStateIssue(e) == e.message[1] = "data terraform_remote_state"

IsMisplacedRemoteState(b) ==
    b.Type = "terraform_remote_state" /\ b.DefRange.Filename # "_init.tf"

C9_SevenQueriesInOrder ==
    /\ Len(QueryKinds) <= Len(DeclaredOrder)
    /\ QueryKinds = SubSeq(DeclaredOrder, 1, Len(QueryKinds))
    /\ (Finished /\ ~SomeQueryFailed) =>
          state = "Done" /\ QueryKinds = DeclaredOrder

(***************************************************************************)
(* C10: checks never interleave: along the calls made on the runner, the   *)
(* checks the calls belong to appear in declared order (files, variable,   *)
(* output, provider, terraform, locals, data), and each query comes after  *)
(* every call of the checks before it and before every diagnostic of its   *)
(* own check.                                                              *)
(***************************************************************************)
C10_NoInterleaving ==
    \A i, j \in 1..Len(events) :
        i < j =>
           /\ Rank(events[i]) <= Rank(events[j])
           /\ IsQuery(events[j]) => Rank(events[i]) < Rank(events[j])

\* Check returned after emitting diagnostics of three different checks
C10_Witness ==
    /\ state = "Done"
    /\ \E a, b, c \in 1..Len(Issues) :
          /\ IsFileIssue(Issues[a])
          /\ Issues[b].message[1] = "variable"
          /\ Issues[c].message[1] = "output"
====
